---- MODULE Spec2Model ----
(***************************************************************************)
(* Model of the in-memory to-do list API (backend_api/src/api/main.py).    *)
(*                                                                         *)
(* The state is the process-wide store _TASKS and the counter _NEXT_ID.    *)
(* Every endpoint handler is one action: it draws a request (path id and   *)
(* JSON body), runs the request-deserialization layer (the pydantic        *)
(* request models and the Path(ge=1) constraint), then the handler body,   *)
(* and records the request and the HTTP response.  Respond ends the        *)
(* request/response cycle.  Requests are handled one at a time in Spec.    *)
(*                                                                         *)
(* ConcSpec runs the writing handlers in worker threads without mutual     *)
(* exclusion: every read and every write of _NEXT_ID and _TASKS is a step  *)
(* of its own, and the steps of different threads interleave.              *)
(***************************************************************************)
EXTENDS Integers, Sequences, FiniteSets, TLC

VARIABLES
    _TASKS,     \* Dict[int, Task]: function from id to task record
    _NEXT_ID,   \* next id to hand out
    req,        \* request being answered (NoRequest between requests)
    resp,       \* HTTP response to req (NoResponse between requests)
    issued,     \* history: ids returned by successful creates, in order
    deleted,    \* history: ids whose delete succeeded
    threads,    \* ConcSpec: per worker thread, its request, position and locals
    create_overlap  \* history: two create handlers were in flight together

conc == <<threads, create_overlap>>

vars == <<_TASKS, _NEXT_ID, req, resp, issued, deleted, threads, create_overlap>>

---------------------------------------------------------------------------
(* Bounds *)

\* create is not offered once _NEXT_ID exceeds MaxId
MaxId == 2

\* ConcSpec: requests the worker threads take up in total
MaxRequests == 4

---------------------------------------------------------------------------
(* JSON values of request bodies and python values of dicts *)

JNull == [type |-> "null"]
JStr(s) == [type |-> "string", val |-> s]
IsStr(v) == v.type = "string"

\* characters python's str.strip() removes
Whitespace == {" ", "\t"}

\* titles are sequences of characters
InputTitles == { <<>>, <<" ">>, <<"\t", " ">>, <<"a">>, <<" ", "a", " ">> }
InputDescriptions == { "", "x" }
InputStatuses == { "pending", "completed", "archived" }

\* class TaskStatus
TaskStatus == { "pending", "completed" }

FieldNames == { "title", "description", "status" }

\* what a body can carry for a field: nothing, null or a string
JUnset == [type |-> "unset"]
TitleValues == { JUnset, JNull } \cup { JStr(t) : t \in InputTitles }
DescriptionValues == { JUnset, JNull } \cup { JStr(d) : d \in InputDescriptions }
StatusValues == { JUnset, JNull } \cup { JStr(s) : s \in InputStatuses }

\* a JSON object with any subset of the three fields; an omitted field is
\* outside the DOMAIN
Body(t, d, s) ==
    LET set == ( IF t = JUnset THEN {} ELSE {"title"} )
               \cup ( IF d = JUnset THEN {} ELSE {"description"} )
               \cup ( IF s = JUnset THEN {} ELSE {"status"} )
    IN  [ f \in set |->
            IF f = "title" THEN t ELSE IF f = "description" THEN d ELSE s ]

Bodies ==
    { Body(t, d, s) : t \in TitleValues, d \in DescriptionValues, s \in StatusValues }

\* path ids offered to the {id} endpoints; 0 is the non-positive case
PathIds == 0 .. MaxId

---------------------------------------------------------------------------
(* str.strip() *)

RECURSIVE lstrip(_)
lstrip(s) ==
    IF s = <<>> THEN s
    ELSE IF Head(s) \in Whitespace THEN lstrip(Tail(s)) ELSE s

RECURSIVE rstrip(_)
rstrip(s) ==
    IF s = <<>> THEN s
    ELSE IF s[Len(s)] \in Whitespace THEN rstrip(SubSeq(s, 1, Len(s) - 1)) ELSE s

strip(s) == rstrip(lstrip(s))

---------------------------------------------------------------------------
(* pydantic models *)

\* Field(..., min_length=1) on title
TitleMinLength == 1

\* TaskBase: all three fields required and well typed
ValidTaskBase(b) ==
    /\ DOMAIN b = FieldNames
    /\ IsStr(b["title"]) /\ Len(b["title"].val) >= TitleMinLength
    /\ IsStr(b["description"])
    /\ IsStr(b["status"]) /\ b["status"].val \in TaskStatus

\* TaskPatch: every field Optional with default None
ValidTaskPatch(b) ==
    /\ "title" \in DOMAIN b =>
          \/ b["title"] = JNull
          \/ IsStr(b["title"]) /\ Len(b["title"].val) >= TitleMinLength
    /\ "description" \in DOMAIN b =>
          b["description"] = JNull \/ IsStr(b["description"])
    /\ "status" \in DOMAIN b =>
          \/ b["status"] = JNull
          \/ IsStr(b["status"]) /\ b["status"].val \in TaskStatus

\* Path(..., ge=1)
ValidPathId(id) == id >= 1

\* variant: the instance is built without validation
ValidTask_unchecked(data) == TRUE

\* Task(**data): the response model validates its keyword arguments;
\* data maps "id" to an int and the three fields to python values
ValidTask(data) ==
    /\ data["id"] >= 1
    /\ IsStr(data["title"]) /\ Len(data["title"].val) >= TitleMinLength
    /\ IsStr(data["description"])
    /\ IsStr(data["status"]) /\ data["status"].val \in TaskStatus

\* the Task instance holding the given attribute values
Task(data) ==
    [ id          |-> data["id"],
      title       |-> data["title"],
      description |-> data["description"],
      status      |-> data["status"] ]

\* Task.model_dump(): the instance's attributes as a dict
model_dump(t) == [ k \in {"id"} \cup FieldNames |-> t[k] ]

\* variant: keys already present win over the patch
dict_update_keep_existing(d, patch) ==
    [ k \in DOMAIN d \cup DOMAIN patch |->
        IF k \in DOMAIN d THEN d[k] ELSE patch[k] ]

\* dict.update: keys of patch override, other keys kept
dict_update(d, patch) ==
    [ k \in DOMAIN d \cup DOMAIN patch |->
        IF k \in DOMAIN patch THEN patch[k] ELSE d[k] ]

---------------------------------------------------------------------------
(* Responses *)

NoRequest == [op |-> "none"]
NoResponse == [status |-> 0]

\* worker threads of the thread pool that runs the def handlers
Threads == { "t1", "t2" }

NoTask == [id |-> 0]

\* a thread that has not taken up a request yet
IdleThread ==
    [ pc       |-> "idle",
      op       |-> "none",
      id       |-> 0,          \* path id
      body     |-> << >>,      \* payload
      task     |-> NoTask,     \* local task / updated
      key      |-> 0,          \* value of _NEXT_ID loaded for the subscript
      n        |-> 0,          \* value of _NEXT_ID loaded for the increment
      existing |-> NoTask,     \* local existing
      resp     |-> NoResponse,
      served   |-> 0 ]         \* requests this thread has taken up

TaskResponse(code, t) == [status |-> code, kind |-> "task", task |-> t]
ListResponse(ts) == [status |-> 200, kind |-> "list", tasks |-> ts]
ErrorResponse(code, msg) == [status |-> code, kind |-> "error", detail |-> msg]
NoContent == [status |-> 204, kind |-> "empty"]

\* RequestValidationError raised by the deserialization layer
Unprocessable == ErrorResponse(422, "validation error")
\* HTTPException(status_code=404, detail="Task not found")
NotFound == ErrorResponse(404, "Task not found")
\* HTTPException(status_code=400, detail="title must not be empty")
BadRequest == ErrorResponse(400, "title must not be empty")
\* an exception that is not an HTTPException escapes the handler
InternalError == ErrorResponse(500, "Internal Server Error")

Init ==
    /\ _TASKS = <<>>
    /\ _NEXT_ID = 1
    /\ req = NoRequest
    /\ resp = NoResponse
    /\ issued = <<>>
    /\ deleted = {}
    /\ threads = [ t \in Threads |-> IdleThread ]
    /\ create_overlap = FALSE

---------------------------------------------------------------------------
(* Store helpers *)

store == <<_TASKS, _NEXT_ID>>

\* variant: the assignment rebuilds the dict with the one entry
dict_set_only(d, key, task) == [ k \in {key} |-> task ]

\* _TASKS[key] = task
dict_set(d, key, task) ==
    [ k \in DOMAIN d \cup {key} |-> IF k = key THEN task ELSE d[k] ]

\* variant: the entry stays
dict_del_noop(d, key) == d

\* del _TASKS[key]
dict_del(d, key) == [ k \in DOMAIN d \ {key} |-> d[k] ]

\* _TASKS.values(): the stored tasks in insertion order, which is ascending
\* key order because keys are only ever inserted from the increasing counter
RECURSIVE dict_values(_)
dict_values(d) ==
    IF DOMAIN d = {} THEN <<>>
    ELSE LET k == CHOOSE x \in DOMAIN d : \A y \in DOMAIN d : x <= y
         IN  <<d[k]>> \o dict_values([ x \in DOMAIN d \ {k} |-> d[x] ])

\* insert t after the last element whose id is <= t.id (stable)
RECURSIVE insert_by_id(_, _)
insert_by_id(ts, t) ==
    IF ts = <<>> THEN <<t>>
    ELSE IF ts[Len(ts)].id <= t.id THEN Append(ts, t)
    ELSE Append(insert_by_id(SubSeq(ts, 1, Len(ts) - 1), t), ts[Len(ts)])

\* variant: descending order, as sorted(..., reverse=True)
sorted_by_id_reversed(ts) == [ i \in 1 .. Len(ts) |-> ts[Len(ts) + 1 - i] ]

\* sorted(ts, key=lambda t: t.id)
RECURSIVE sorted_by_id(_)
sorted_by_id(ts) ==
    IF ts = <<>> THEN <<>>
    ELSE insert_by_id(sorted_by_id(SubSeq(ts, 1, Len(ts) - 1)), ts[Len(ts)])

\* _get_task_or_404 as called by get_task: the task, or the 404 response
get_task_or_404(task_id) ==
    IF task_id \notin DOMAIN _TASKS THEN NotFound
    ELSE TaskResponse(200, _TASKS[task_id])

\* variant: the counter is not advanced
next_id_not_incremented(n) == n

\* _NEXT_ID += 1
next_id_after_create(n) == n + 1

\* variant: the title is trimmed before it is stored
task_kwargs_trimmed(id, payload) ==
    dict_update([id |-> id],
                [ payload EXCEPT !["title"] = JStr(strip(payload["title"].val)) ])

\* Task(id=id, **payload.model_dump()): keyword arguments of the constructor
task_kwargs(id, payload) == dict_update([id |-> id], payload)

\* payload.model_dump(exclude_unset=True): only the fields the body set
patch_dump(payload) == payload

---------------------------------------------------------------------------
(* Handlers *)

\* GET /
health_check ==
    /\ req = NoRequest
    /\ UNCHANGED conc
    /\ req' = [op |-> "health"]
    /\ resp' = [status |-> 200, kind |-> "message", message |-> "Healthy"]
    /\ UNCHANGED <<store, issued, deleted>>

\* GET /tasks
list_tasks ==
    /\ req = NoRequest
    /\ UNCHANGED conc
    /\ req' = [op |-> "list"]
    /\ resp' = ListResponse(sorted_by_id(dict_values(_TASKS)))
    /\ UNCHANGED <<store, issued, deleted>>

\* variant of create_task: the counter is advanced before the title guard
create_task_counts_rejected ==
    /\ req = NoRequest
    /\ UNCHANGED conc
    /\ \E payload \in Bodies :
        /\ req' = [op |-> "create", body |-> payload]
        /\ IF ~ValidTaskBase(payload) THEN
               /\ resp' = Unprocessable
               /\ UNCHANGED <<store, issued, deleted>>
           ELSE IF strip(payload["title"].val) = <<>> THEN
               /\ resp' = BadRequest
               /\ _NEXT_ID' = next_id_after_create(_NEXT_ID)
               /\ UNCHANGED <<_TASKS, issued, deleted>>
           ELSE
               LET task == Task(task_kwargs(_NEXT_ID, payload)) IN
               /\ _NEXT_ID <= MaxId
               /\ _TASKS' = dict_set(_TASKS, _NEXT_ID, task)
               /\ _NEXT_ID' = next_id_after_create(_NEXT_ID)
               /\ resp' = TaskResponse(201, task)
               /\ issued' = Append(issued, task.id)
               /\ UNCHANGED deleted

\* variant of create_task: the id is derived from the largest stored key
\* instead of the counter
create_task_id_from_max_key ==
    /\ req = NoRequest
    /\ UNCHANGED conc
    /\ \E payload \in Bodies :
        /\ req' = [op |-> "create", body |-> payload]
        /\ IF ~ValidTaskBase(payload) THEN
               /\ resp' = Unprocessable
               /\ UNCHANGED <<store, issued, deleted>>
           ELSE IF strip(payload["title"].val) = <<>> THEN
               /\ resp' = BadRequest
               /\ UNCHANGED <<store, issued, deleted>>
           ELSE
               LET new_id == IF DOMAIN _TASKS = {} THEN 1
                             ELSE 1 + CHOOSE x \in DOMAIN _TASKS :
                                         \A y \in DOMAIN _TASKS : y <= x
                   task == Task(task_kwargs(new_id, payload))
               IN
               /\ new_id <= MaxId
               /\ _TASKS' = dict_set(_TASKS, new_id, task)
               /\ _NEXT_ID' = new_id + 1
               /\ resp' = TaskResponse(201, task)
               /\ issued' = Append(issued, task.id)
               /\ UNCHANGED deleted

\* POST /tasks
create_task ==
    /\ req = NoRequest
    /\ UNCHANGED conc
    /\ \E payload \in Bodies :
        /\ req' = [op |-> "create", body |-> payload]
        /\ IF ~ValidTaskBase(payload) THEN
               /\ resp' = Unprocessable
               /\ UNCHANGED <<store, issued, deleted>>
           ELSE IF strip(payload["title"].val) = <<>> THEN
               /\ resp' = BadRequest
               /\ UNCHANGED <<store, issued, deleted>>
           ELSE IF ~ValidTask(task_kwargs(_NEXT_ID, payload)) THEN
               /\ resp' = InternalError
               /\ UNCHANGED <<store, issued, deleted>>
           ELSE
               LET task == Task(task_kwargs(_NEXT_ID, payload)) IN
               /\ _NEXT_ID <= MaxId
               /\ _TASKS' = dict_set(_TASKS, _NEXT_ID, task)
               /\ _NEXT_ID' = next_id_after_create(_NEXT_ID)
               /\ resp' = TaskResponse(201, task)
               /\ issued' = Append(issued, task.id)
               /\ UNCHANGED deleted

\* GET /tasks/{id}
get_task ==
    /\ req = NoRequest
    /\ UNCHANGED conc
    /\ \E id \in PathIds :
        /\ req' = [op |-> "get", id |-> id]
        /\ resp' = IF ~ValidPathId(id) THEN Unprocessable
                   ELSE get_task_or_404(id)
        /\ UNCHANGED <<store, issued, deleted>>

\* variant of update_task: the title guard runs before the existence check
update_task_title_guard_first ==
    /\ req = NoRequest
    /\ UNCHANGED conc
    /\ \E id \in PathIds, payload \in Bodies :
        /\ req' = [op |-> "update", id |-> id, body |-> payload]
        /\ UNCHANGED <<_NEXT_ID, issued, deleted>>
        /\ IF ~ValidPathId(id) \/ ~ValidTaskBase(payload) THEN
               resp' = Unprocessable /\ UNCHANGED _TASKS
           ELSE IF strip(payload["title"].val) = <<>> THEN
               resp' = BadRequest /\ UNCHANGED _TASKS
           ELSE IF id \notin DOMAIN _TASKS THEN
               resp' = NotFound /\ UNCHANGED _TASKS
           ELSE
               LET updated == Task(task_kwargs(id, payload)) IN
               /\ _TASKS' = dict_set(_TASKS, id, updated)
               /\ resp' = TaskResponse(200, updated)

\* variant of update_task: the stored description survives the replace
update_task_keeps_description ==
    /\ req = NoRequest
    /\ UNCHANGED conc
    /\ \E id \in PathIds, payload \in Bodies :
        /\ req' = [op |-> "update", id |-> id, body |-> payload]
        /\ UNCHANGED <<_NEXT_ID, issued, deleted>>
        /\ IF ~ValidPathId(id) \/ ~ValidTaskBase(payload) THEN
               resp' = Unprocessable /\ UNCHANGED _TASKS
           ELSE IF id \notin DOMAIN _TASKS THEN
               resp' = NotFound /\ UNCHANGED _TASKS
           ELSE IF strip(payload["title"].val) = <<>> THEN
               resp' = BadRequest /\ UNCHANGED _TASKS
           ELSE
               LET updated == [ Task(task_kwargs(id, payload))
                                  EXCEPT !.description = _TASKS[id].description ]
               IN
               /\ _TASKS' = dict_set(_TASKS, id, updated)
               /\ resp' = TaskResponse(200, updated)

\* PUT /tasks/{id}
update_task ==
    /\ req = NoRequest
    /\ UNCHANGED conc
    /\ \E id \in PathIds, payload \in Bodies :
        /\ req' = [op |-> "update", id |-> id, body |-> payload]
        /\ UNCHANGED <<_NEXT_ID, issued, deleted>>
        /\ IF ~ValidPathId(id) \/ ~ValidTaskBase(payload) THEN
               resp' = Unprocessable /\ UNCHANGED _TASKS
           ELSE IF id \notin DOMAIN _TASKS THEN
               resp' = NotFound /\ UNCHANGED _TASKS
           ELSE IF strip(payload["title"].val) = <<>> THEN
               resp' = BadRequest /\ UNCHANGED _TASKS
           ELSE IF ~ValidTask(task_kwargs(id, payload)) THEN
               resp' = InternalError /\ UNCHANGED _TASKS
           ELSE
               LET updated == Task(task_kwargs(id, payload)) IN
               /\ _TASKS' = dict_set(_TASKS, id, updated)
               /\ resp' = TaskResponse(200, updated)

\* variant of patch_task: the merged data is stored before it is validated
patch_task_stores_before_validation ==
    /\ req = NoRequest
    /\ UNCHANGED conc
    /\ \E id \in PathIds, payload \in Bodies :
        /\ req' = [op |-> "patch", id |-> id, body |-> payload]
        /\ UNCHANGED <<_NEXT_ID, issued, deleted>>
        /\ IF ~ValidPathId(id) \/ ~ValidTaskPatch(payload) THEN
               resp' = Unprocessable /\ UNCHANGED _TASKS
           ELSE IF id \notin DOMAIN _TASKS THEN
               resp' = NotFound /\ UNCHANGED _TASKS
           ELSE
               LET existing   == _TASKS[id]
                   patch_data == patch_dump(payload)
                   new_data   == dict_update(model_dump(existing), patch_data)
               IN
               /\ _TASKS' = dict_set(_TASKS, id, Task(new_data))
               /\ resp' = IF /\ "title" \in DOMAIN patch_data
                             /\ patch_data["title"] # JNull
                             /\ strip(patch_data["title"].val) = <<>>
                          THEN BadRequest
                          ELSE IF ~ValidTask(new_data) THEN InternalError
                          ELSE TaskResponse(200, Task(new_data))

\* PATCH /tasks/{id}
patch_task ==
    /\ req = NoRequest
    /\ UNCHANGED conc
    /\ \E id \in PathIds, payload \in Bodies :
        /\ req' = [op |-> "patch", id |-> id, body |-> payload]
        /\ UNCHANGED <<_NEXT_ID, issued, deleted>>
        /\ IF ~ValidPathId(id) \/ ~ValidTaskPatch(payload) THEN
               resp' = Unprocessable /\ UNCHANGED _TASKS
           ELSE IF id \notin DOMAIN _TASKS THEN
               resp' = NotFound /\ UNCHANGED _TASKS
           ELSE
               LET existing   == _TASKS[id]
                   patch_data == patch_dump(payload)
                   new_data   == dict_update(model_dump(existing), patch_data)
               IN
               IF /\ "title" \in DOMAIN patch_data
                  /\ patch_data["title"] # JNull
                  /\ strip(patch_data["title"].val) = <<>>
               THEN resp' = BadRequest /\ UNCHANGED _TASKS
               ELSE IF ~ValidTask(new_data) THEN
                   resp' = InternalError /\ UNCHANGED _TASKS
               ELSE
                   /\ _TASKS' = dict_set(_TASKS, id, Task(new_data))
                   /\ resp' = TaskResponse(200, Task(new_data))

\* DELETE /tasks/{id}
delete_task ==
    /\ req = NoRequest
    /\ UNCHANGED conc
    /\ \E id \in PathIds :
        /\ req' = [op |-> "delete", id |-> id]
        /\ UNCHANGED <<_NEXT_ID, issued>>
        /\ IF ~ValidPathId(id) THEN
               resp' = Unprocessable /\ UNCHANGED <<_TASKS, deleted>>
           ELSE IF id \notin DOMAIN _TASKS THEN
               resp' = NotFound /\ UNCHANGED <<_TASKS, deleted>>
           ELSE
               /\ _TASKS' = dict_del(_TASKS, id)
               /\ resp' = NoContent
               /\ deleted' = deleted \cup {id}

\* the response is sent; the server waits for the next request
Respond ==
    /\ req # NoRequest
    /\ UNCHANGED conc
    /\ req' = NoRequest
    /\ resp' = NoResponse
    /\ UNCHANGED <<store, issued, deleted>>

Next ==
    \/ health_check
    \/ list_tasks
    \/ create_task
    \/ get_task
    \/ update_task
    \/ patch_task
    \/ delete_task
    \/ Respond

Spec == Init /\ [][Next]_vars

TypeOK ==
    /\ _NEXT_ID \in 1 .. MaxId + 1
    /\ DOMAIN _TASKS \subseteq 1 .. MaxId
    /\ deleted \subseteq 1 .. MaxId

---------------------------------------------------------------------------
(* Handlers run by worker threads, one step per shared read or write *)

\* payloads the concurrent requests carry (all pass deserialization)
ConcBodies ==
    { Body(JStr(<<"a">>), JStr(""), JStr("pending")),
      Body(JStr(<<" ", "a", " ">>), JStr("x"), JStr("completed")) }

ConcPatches ==
    { Body(JUnset, JStr("x"), JUnset),
      Body(JUnset, JUnset, JStr("completed")) }

ConcIds == 1 .. MaxId

RECURSIVE TotalServed(_)
TotalServed(T) ==
    IF T = {} THEN 0
    ELSE LET t == CHOOSE x \in T : TRUE
         IN  threads[t].served + TotalServed(T \ {t})

\* the thread is free to take up a request
Ready(t) ==
    /\ threads[t].pc \in { "idle", "done" }
    /\ TotalServed(Threads) < MaxRequests

\* the thread's record when it takes up a request
Begin(t, op, id, payload) ==
    [ IdleThread EXCEPT !.op = op, !.id = id, !.body = payload,
                        !.served = threads[t].served + 1 ]

\* the thread's record when its handler returns or raises
Done(r, response) ==
    [ r EXCEPT !.pc = "done", !.resp = response, !.key = 0, !.n = 0 ]

CreatePcs ==
    { "create_load_key", "create_store", "create_load_counter",
      "create_store_counter" }

\* create_task up to Task(id=_NEXT_ID, ...): the title guard, then the load
\* of _NEXT_ID for the task's id
create_task_load_id(t) ==
    /\ Ready(t)
    /\ UNCHANGED <<store, req, resp, issued, deleted>>
    /\ \E payload \in ConcBodies :
        LET r == Begin(t, "create", 0, payload) IN
        IF strip(payload["title"].val) = <<>> THEN
            /\ threads' = [ threads EXCEPT ![t] = Done(r, BadRequest) ]
            /\ UNCHANGED create_overlap
        ELSE IF ~ValidTask(task_kwargs(_NEXT_ID, payload)) THEN
            /\ threads' = [ threads EXCEPT ![t] = Done(r, InternalError) ]
            /\ UNCHANGED create_overlap
        ELSE
            /\ _NEXT_ID <= MaxId
            /\ threads' = [ threads EXCEPT ![t] =
                    [ r EXCEPT !.pc = "create_load_key",
                               !.task = Task(task_kwargs(_NEXT_ID, payload)) ] ]
            /\ create_overlap' =
                    ( create_overlap
                      \/ \E u \in Threads \ {t} : threads[u].pc \in CreatePcs )

\* variant: the key is taken after the counter was advanced
create_task_load_key_advanced(t) ==
    /\ threads[t].pc = "create_load_key"
    /\ threads' = [ threads EXCEPT ![t].pc = "create_store",
                                   ![t].key = _NEXT_ID + 1 ]
    /\ UNCHANGED <<store, req, resp, issued, deleted, create_overlap>>

\* _TASKS[_NEXT_ID] = task: the load of _NEXT_ID for the subscript
create_task_load_key(t) ==
    /\ threads[t].pc = "create_load_key"
    /\ threads' = [ threads EXCEPT ![t].pc = "create_store",
                                   ![t].key = _NEXT_ID ]
    /\ UNCHANGED <<store, req, resp, issued, deleted, create_overlap>>

\* _TASKS[_NEXT_ID] = task: the store into the dict
create_task_store(t) ==
    /\ threads[t].pc = "create_store"
    /\ _TASKS' = dict_set(_TASKS, threads[t].key, threads[t].task)
    /\ threads' = [ threads EXCEPT ![t].pc = "create_load_counter" ]
    /\ UNCHANGED <<_NEXT_ID, req, resp, issued, deleted, create_overlap>>

\* _NEXT_ID += 1: the load
create_task_load_counter(t) ==
    /\ threads[t].pc = "create_load_counter"
    /\ threads' = [ threads EXCEPT ![t].pc = "create_store_counter",
                                   ![t].n = _NEXT_ID ]
    /\ UNCHANGED <<store, req, resp, issued, deleted, create_overlap>>

\* _NEXT_ID += 1: the store, then return task
create_task_store_counter(t) ==
    /\ threads[t].pc = "create_store_counter"
    /\ _NEXT_ID' = next_id_after_create(threads[t].n)
    /\ threads' = [ threads EXCEPT ![t] =
            Done(threads[t], TaskResponse(201, threads[t].task)) ]
    /\ issued' = Append(issued, threads[t].task.id)
    /\ UNCHANGED <<_TASKS, req, resp, deleted, create_overlap>>

\* update_task up to Task(id=id, ...): _get_task_or_404 reads _TASKS, then
\* the title guard
update_task_check(t) ==
    /\ Ready(t)
    /\ UNCHANGED <<store, req, resp, issued, deleted, create_overlap>>
    /\ \E id \in ConcIds, payload \in ConcBodies :
        LET r == Begin(t, "update", id, payload) IN
        threads' = [ threads EXCEPT ![t] =
            IF id \notin DOMAIN _TASKS THEN Done(r, NotFound)
            ELSE IF strip(payload["title"].val) = <<>> THEN Done(r, BadRequest)
            ELSE IF ~ValidTask(task_kwargs(id, payload)) THEN Done(r, InternalError)
            ELSE [ r EXCEPT !.pc = "update_store",
                            !.task = Task(task_kwargs(id, payload)) ] ]

\* _TASKS[id] = updated, then return updated
update_task_store(t) ==
    /\ threads[t].pc = "update_store"
    /\ _TASKS' = dict_set(_TASKS, threads[t].id, threads[t].task)
    /\ threads' = [ threads EXCEPT ![t] =
            Done(threads[t], TaskResponse(200, threads[t].task)) ]
    /\ UNCHANGED <<_NEXT_ID, req, resp, issued, deleted, create_overlap>>

\* patch_task up to Task(**new_data): _get_task_or_404 reads _TASKS, then
\* the merge and the guards on the locals
patch_task_read(t) ==
    /\ Ready(t)
    /\ UNCHANGED <<store, req, resp, issued, deleted, create_overlap>>
    /\ \E id \in ConcIds, payload \in ConcPatches :
        LET r == Begin(t, "patch", id, payload) IN
        threads' = [ threads EXCEPT ![t] =
            IF id \notin DOMAIN _TASKS THEN Done(r, NotFound)
            ELSE
                LET existing   == _TASKS[id]
                    patch_data == patch_dump(payload)
                    new_data   == dict_update(model_dump(existing), patch_data)
                IN
                IF /\ "title" \in DOMAIN patch_data
                   /\ patch_data["title"] # JNull
                   /\ strip(patch_data["title"].val) = <<>>
                THEN Done(r, BadRequest)
                ELSE IF ~ValidTask(new_data) THEN Done(r, InternalError)
                ELSE [ r EXCEPT !.pc = "patch_store",
                                !.existing = existing,
                                !.task = Task(new_data) ] ]

\* variant: the merge is redone on the task stored at the time of the write
patch_task_store_merging(t) ==
    /\ threads[t].pc = "patch_store"
    /\ threads[t].id \in DOMAIN _TASKS
    /\ LET merged == Task(dict_update(model_dump(_TASKS[threads[t].id]),
                                      patch_dump(threads[t].body)))
       IN
       /\ _TASKS' = dict_set(_TASKS, threads[t].id, merged)
       /\ threads' = [ threads EXCEPT ![t] =
               Done(threads[t], TaskResponse(200, merged)) ]
    /\ UNCHANGED <<_NEXT_ID, req, resp, issued, deleted, create_overlap>>

\* _TASKS[id] = updated, then return updated
patch_task_store(t) ==
    /\ threads[t].pc = "patch_store"
    /\ _TASKS' = dict_set(_TASKS, threads[t].id, threads[t].task)
    /\ threads' = [ threads EXCEPT ![t] =
            Done(threads[t], TaskResponse(200, threads[t].task)) ]
    /\ UNCHANGED <<_NEXT_ID, req, resp, issued, deleted, create_overlap>>

\* delete_task: _get_task_or_404 reads _TASKS
delete_task_check(t) ==
    /\ Ready(t)
    /\ UNCHANGED <<store, req, resp, issued, deleted, create_overlap>>
    /\ \E id \in ConcIds :
        LET r == Begin(t, "delete", id, << >>) IN
        threads' = [ threads EXCEPT ![t] =
            IF id \notin DOMAIN _TASKS THEN Done(r, NotFound)
            ELSE [ r EXCEPT !.pc = "delete_del" ] ]

\* variant: the removal tolerates a missing key, as _TASKS.pop(id, None)
delete_task_del_tolerant(t) ==
    /\ threads[t].pc = "delete_del"
    /\ _TASKS' = dict_del(_TASKS, threads[t].id)
    /\ threads' = [ threads EXCEPT ![t] = Done(threads[t], NoContent) ]
    /\ deleted' = deleted \cup { threads[t].id }
    /\ UNCHANGED <<_NEXT_ID, req, resp, issued, create_overlap>>

\* del _TASKS[id], then return None; a missing key raises KeyError, which
\* is not an HTTPException
delete_task_del(t) ==
    /\ threads[t].pc = "delete_del"
    /\ UNCHANGED <<_NEXT_ID, req, resp, issued, create_overlap>>
    /\ IF threads[t].id \in DOMAIN _TASKS THEN
           /\ _TASKS' = dict_del(_TASKS, threads[t].id)
           /\ threads' = [ threads EXCEPT ![t] = Done(threads[t], NoContent) ]
           /\ deleted' = deleted \cup { threads[t].id }
       ELSE
           /\ threads' = [ threads EXCEPT ![t] = Done(threads[t], InternalError) ]
           /\ UNCHANGED <<_TASKS, deleted>>

ConcNext ==
    \E t \in Threads :
        \/ create_task_load_id(t)
        \/ create_task_load_key(t)
        \/ create_task_store(t)
        \/ create_task_load_counter(t)
        \/ create_task_store_counter(t)
        \/ update_task_check(t)
        \/ update_task_store(t)
        \/ patch_task_read(t)
        \/ patch_task_store(t)
        \/ delete_task_check(t)
        \/ delete_task_del(t)

ConcSpec == Init /\ [][ConcNext]_vars

---------------------------------------------------------------------------
(* Properties *)

IdOps == { "get", "update", "patch", "delete" }

\* the request reached its handler: deserialization accepted path and body
Deserialized(r) ==
    /\ r.op \in IdOps => ValidPathId(r.id)
    /\ r.op \in { "create", "update" } => ValidTaskBase(r.body)
    /\ r.op = "patch" => ValidTaskPatch(r.body)

StoredTasks == { _TASKS[k] : k \in DOMAIN _TASKS }

\* C1: every successful create returns an id strictly greater than every id
\* returned by an earlier create, so ids increase in request order and an id
\* once returned is never returned again, also after it was deleted.
C1_CreateIdsStrictlyIncreasing ==
    [][ (req'.op = "create" /\ resp'.status = 201) =>
            /\ \A i \in DOMAIN issued : issued[i] < resp'.task.id
            /\ issued' = Append(issued, resp'.task.id) ]_vars

\* a create that succeeded after the task of an earlier create was deleted
C1_Witness ==
    /\ req.op = "create" /\ resp.status = 201
    /\ Len(issued) >= 2
    /\ issued[1] \in deleted

\* C2: _NEXT_ID is strictly greater than every id ever issued, stored or
\* deleted, and no step decreases _NEXT_ID.
C2_NextIdAboveIssued ==
    /\ [](\A i \in DOMAIN issued : issued[i] < _NEXT_ID)
    /\ [][_NEXT_ID' >= _NEXT_ID]_vars

\* every issued id was deleted again and the counter is still above them
C2_Witness ==
    /\ Len(issued) >= 2
    /\ \A i \in DOMAIN issued : issued[i] \in deleted
    /\ _TASKS = <<>>

\* C3: every stored task has id >= 1, a string title that is non-empty
\* after trimming, a string description and a status in TaskStatus.
C3_StoredTasksValid ==
    \A k \in DOMAIN _TASKS :
        LET t == _TASKS[k] IN
        /\ t.id >= 1
        /\ IsStr(t.title) /\ strip(t.title.val) # <<>>
        /\ IsStr(t.description)
        /\ IsStr(t.status) /\ t.status.val \in TaskStatus

\* a patch carrying a null field was handled against a stored task
C3_Witness ==
    /\ req.op = "patch"
    /\ req.id \in DOMAIN _TASKS
    /\ \E f \in DOMAIN req.body : req.body[f] = JNull
    /\ resp.status # 422

\* C4: list answers 200 with exactly the stored tasks, each once, in
\* strictly ascending id order; with no delete so far the list has as many
\* tasks as creates have succeeded.
C4_ListAllAscending ==
    req.op = "list" =>
        /\ resp.status = 200
        /\ Len(resp.tasks) = Cardinality(DOMAIN _TASKS)
        /\ \A k \in DOMAIN _TASKS :
              Cardinality({ i \in 1 .. Len(resp.tasks) : resp.tasks[i] = _TASKS[k] }) = 1
        /\ \A i \in 1 .. Len(resp.tasks) : resp.tasks[i] \in StoredTasks
        /\ \A i, j \in 1 .. Len(resp.tasks) :
              i < j => resp.tasks[i].id < resp.tasks[j].id
        /\ deleted = {} => Len(resp.tasks) = Len(issued)

\* list answered with two tasks after two creates and no delete
C4_Witness ==
    /\ req.op = "list"
    /\ deleted = {}
    /\ Len(issued) = 2
    /\ Len(resp.tasks) = 2

\* C5: once delete(id) succeeded, id stays out of the store, and every later
\* get, replace, patch or delete of id that reaches its handler is answered
\* 404.
C5_DeleteIsPermanent ==
    /\ [](deleted \cap DOMAIN _TASKS = {})
    /\ [][ \A id \in deleted :
             (req'.op \in IdOps /\ req'.id = id /\ Deserialized(req')) =>
                 resp' = NotFound ]_vars

\* a replace of a deleted id was answered 404 after a later create
C5_Witness ==
    /\ req.op = "update"
    /\ req.id \in deleted
    /\ resp.status = 404
    /\ _TASKS # <<>>

\* C6: a successful patch overwrites exactly the fields its body supplies
\* and leaves the task's id and every omitted field as they were; the
\* response carries the stored task.
C6_PatchOverwritesOnlySupplied ==
    [][ (req'.op = "patch" /\ resp'.status = 200) =>
            LET old == _TASKS[req'.id]
                new == _TASKS'[req'.id]
            IN
            /\ req'.id \in DOMAIN _TASKS
            /\ new.id = old.id
            /\ \A f \in FieldNames :
                  new[f] = IF f \in DOMAIN req'.body THEN req'.body[f] ELSE old[f]
            /\ resp'.task = new ]_vars

\* a patch supplying only a description, different from the stored one,
\* succeeded
C6_Witness ==
    /\ req.op = "patch" /\ resp.status = 200
    /\ DOMAIN req.body = {"description"}
    /\ req.body["description"] = JStr("x")
    /\ _TASKS[req.id].description = JStr("x")
    /\ _TASKS[req.id].status = JStr("completed")

\* C7: after a successful replace, get of the same id answers 200 with
\* exactly the supplied title, description and status and the same id.
C7_ReplaceThenGet ==
    (req.op = "update" /\ resp.status = 200) =>
        get_task_or_404(req.id) =
            TaskResponse(200, [ id          |-> req.id,
                                title       |-> req.body["title"],
                                description |-> req.body["description"],
                                status      |-> req.body["status"] ])

\* a replace succeeded on a stored task
C7_Witness ==
    /\ req.op = "update" /\ resp.status = 200
    /\ req.body["description"] = JStr("x")
    /\ req.id = 2

\* C8: a create, or a replace or patch of a stored id, whose title is a
\* string that is empty after trimming and whose other fields are well
\* formed is answered 400.
C8_BlankTitleIs400 ==
    LET blank(b) == /\ "title" \in DOMAIN b
                    /\ IsStr(b["title"])
                    /\ strip(b["title"].val) = <<>>
        \* the body with its title replaced by a plain one
        titled(b) == [ b EXCEPT !["title"] = JStr(<<"a">>) ]
    IN
    /\ (req.op = "create" /\ blank(req.body) /\ ValidTaskBase(titled(req.body)))
        => resp = BadRequest
    /\ (req.op = "update" /\ req.id \in DOMAIN _TASKS
          /\ blank(req.body) /\ ValidTaskBase(titled(req.body)))
        => resp = BadRequest
    /\ (req.op = "patch" /\ req.id \in DOMAIN _TASKS
          /\ blank(req.body) /\ ValidTaskPatch(titled(req.body)))
        => resp = BadRequest

\* C9: a PATCH whose path id and body pass deserialization is answered 200
\* with the updated task, 404 when the id is absent, or 400 when a supplied
\* title is empty after trimming; never with an unhandled error.
C9_PatchOutcomes ==
    (req.op = "patch" /\ Deserialized(req)) =>
        \/ resp.status = 200 /\ resp.task = _TASKS[req.id]
        \/ resp = NotFound /\ req.id \notin DOMAIN _TASKS
        \/ /\ resp = BadRequest
           /\ "title" \in DOMAIN req.body
           /\ IsStr(req.body["title"])
           /\ strip(req.body["title"].val) = <<>>

\* C10: a request answered with an error status leaves _TASKS and _NEXT_ID
\* as they were.
C10_FailureLeavesStore ==
    [][ resp'.status >= 400 => (_TASKS' = _TASKS /\ _NEXT_ID' = _NEXT_ID) ]_vars

\* a request against a non-empty store ended in an unhandled error
C10_Witness ==
    /\ resp.status = 500
    /\ _TASKS # <<>>

\* C16: a replace or patch that passes deserialization and addresses an id
\* absent from the store is answered 404, whatever its title: the existence
\* check comes before the title guard, so the answer is never 400.
C16_AbsentIdIs404 ==
    [][ (req'.op \in { "update", "patch" } /\ Deserialized(req')
           /\ req'.id \notin DOMAIN _TASKS) =>
            resp' = NotFound ]_vars

\* a replace with a whitespace-only title of an absent id was answered 404
C16_Witness ==
    /\ req.op = "update"
    /\ Deserialized(req)
    /\ strip(req.body["title"].val) = <<>>
    /\ req.id \notin DOMAIN _TASKS
    /\ resp = NotFound

\* the title has whitespace around a non-empty core
PaddedTitle(b) ==
    /\ "title" \in DOMAIN b
    /\ IsStr(b["title"])
    /\ strip(b["title"].val) # <<>>
    /\ strip(b["title"].val) # b["title"].val

\* C17: a create, or a replace or patch of a stored id, whose title is
\* padded with whitespace around a non-empty core and whose other supplied
\* fields are well-formed values succeeds, and the stored and the returned
\* title are the supplied string, untrimmed.
C17_TitleStoredUntrimmed ==
    LET ok == /\ resp.status \in { 200, 201 }
              /\ resp.task.title = req.body["title"]
              /\ resp.task.id \in DOMAIN _TASKS
              /\ _TASKS[resp.task.id].title = req.body["title"]
    IN
    /\ (req.op = "create" /\ PaddedTitle(req.body) /\ ValidTaskBase(req.body))
          => ok
    /\ (req.op = "update" /\ req.id \in DOMAIN _TASKS
          /\ PaddedTitle(req.body) /\ ValidTaskBase(req.body))
          => (ok /\ resp.task.id = req.id)
    /\ (req.op = "patch" /\ req.id \in DOMAIN _TASKS
          /\ PaddedTitle(req.body) /\ ValidTaskPatch(req.body)
          /\ \A f \in DOMAIN req.body : req.body[f] # JNull)
          => (ok /\ resp.task.id = req.id)

\* a patch put a padded title on a stored task
C17_Witness ==
    /\ req.op = "patch" /\ resp.status = 200
    /\ PaddedTitle(req.body)
    /\ _TASKS[req.id].title = JStr(<<" ", "a", " ">>)

\* C18: the k-th successful create returns id k, and _NEXT_ID is one more
\* than the number of successful creates, whatever else was requested.
C18_KthCreateReturnsK ==
    /\ _NEXT_ID = Len(issued) + 1
    /\ \A k \in DOMAIN issued : issued[k] = k
    /\ (req.op = "create" /\ resp.status = 201) => resp.task.id = Len(issued)

\* a create was rejected with 400 after one success: no id was consumed
C18_Witness ==
    /\ req.op = "create"
    /\ resp = BadRequest
    /\ issued = <<1>>
    /\ 1 \in deleted
    /\ _NEXT_ID = 2

\* C19: get, list and the health check leave _TASKS and _NEXT_ID unchanged;
\* replace, patch and delete leave _NEXT_ID and every entry under another id
\* unchanged and add no key; a successful create adds exactly one entry,
\* advances _NEXT_ID by one and leaves the existing entries unchanged.
C19_OperationsFrame ==
    [][ /\ req'.op \in { "get", "list", "health" } =>
              (_TASKS' = _TASKS /\ _NEXT_ID' = _NEXT_ID)
        /\ req'.op \in { "update", "patch", "delete" } =>
              /\ _NEXT_ID' = _NEXT_ID
              /\ DOMAIN _TASKS' \subseteq DOMAIN _TASKS
              /\ \A k \in DOMAIN _TASKS \ {req'.id} :
                    k \in DOMAIN _TASKS' /\ _TASKS'[k] = _TASKS[k]
        /\ (req'.op = "create" /\ resp'.status = 201) =>
              /\ _NEXT_ID' = _NEXT_ID + 1
              /\ Cardinality(DOMAIN _TASKS' \ DOMAIN _TASKS) = 1
              /\ \A k \in DOMAIN _TASKS :
                    k \in DOMAIN _TASKS' /\ _TASKS'[k] = _TASKS[k] ]_vars

\* a replace succeeded on one of two stored tasks
C19_Witness ==
    /\ req.op = "update" /\ resp.status = 200
    /\ req.id = 1
    /\ DOMAIN _TASKS = { 1, 2 }

---------------------------------------------------------------------------
(* Properties of the interleaved handlers (ConcSpec) *)

\* thread t has finished a request of kind op
Finished(t, op) == threads[t].pc = "done" /\ threads[t].op = op

\* C11: two successful creates return the same id only when two create
\* handlers were in flight together; the interleaved run in which they do
\* is C11_Witness.
C11_DuplicateIdNeedsOverlap ==
    (\E i, j \in DOMAIN issued : i < j /\ issued[i] = issued[j])
        => create_overlap

\* both threads returned 201 from create with tasks carrying the same id
C11_Witness ==
    \E t, u \in Threads :
        /\ t # u
        /\ Finished(t, "create") /\ threads[t].resp.status = 201
        /\ Finished(u, "create") /\ threads[u].resp.status = 201
        /\ threads[t].resp.task.id = threads[u].resp.task.id

\* C12 as claimed: an id whose delete returned success stays absent from
\* the store also when a replace or patch of it that passed its existence
\* check before the delete writes afterwards: the write of an in-flight
\* update never brings a deleted id back.
C12_NoReinsertByInFlightUpdate ==
    [][ \A t \in Threads :
          ( /\ threads[t].pc \in { "update_store", "patch_store" }
            /\ threads'[t].pc = "done"
            /\ threads[t].id \in deleted
            /\ threads[t].id \notin DOMAIN _TASKS ) =>
              threads[t].id \notin DOMAIN _TASKS' ]_vars

\* C12 as amended: a delete that returns success leaves its id absent, and
\* afterwards the id comes back only by the write of a replace or patch of
\* that id that had passed its existence check, or of a create that had
\* loaded that key.
C12_ReinsertOnlyByPendingWrite ==
    [][ /\ \A t \in Threads :
              ( threads[t].pc = "delete_del" /\ threads'[t].resp = NoContent ) =>
                  ( threads[t].id \notin DOMAIN _TASKS'
                    /\ threads[t].id \in deleted' )
        /\ \A id \in deleted :
              ( id \notin DOMAIN _TASKS /\ id \in DOMAIN _TASKS' ) =>
                  \E t \in Threads :
                      \/ /\ threads[t].pc \in { "update_store", "patch_store" }
                         /\ threads[t].id = id
                         /\ threads'[t].pc = "done"
                         /\ _TASKS'[id] = threads[t].task
                      \/ /\ threads[t].pc = "create_store"
                         /\ threads[t].key = id
                         /\ threads'[t].pc = "create_load_counter" ]_vars

\* a replace that passed its check before the delete wrote after it: both
\* returned success and the deleted id is stored again
C12_Witness ==
    \E t, u \in Threads :
        /\ Finished(t, "update") /\ threads[t].resp.status = 200
        /\ Finished(u, "delete") /\ threads[u].resp = NoContent
        /\ threads[t].id = threads[u].id
        /\ threads[t].id \in deleted
        /\ threads[t].id \in DOMAIN _TASKS

\* C13 as claimed: every delete request ends with 204 or 404.
C13_DeleteEnds204Or404 ==
    \A t \in Threads :
        Finished(t, "delete") => threads[t].resp \in { NoContent, NotFound }

\* C13 as amended: a delete ends with 404 when its existence check finds the
\* id absent, with 204 when the id is still stored at its removal, and in an
\* unhandled error when the entry was removed between its check and its
\* removal.
C13_DeleteOutcomesInterleaved ==
    [][ \A t \in Threads :
          /\ ( threads[t].pc = "delete_del" /\ threads'[t].pc = "done" ) =>
                threads'[t].resp =
                    IF threads[t].id \in DOMAIN _TASKS THEN NoContent
                    ELSE InternalError
          /\ ( threads[t].pc # "delete_del" /\ threads'[t] # threads[t]
               /\ threads'[t].op = "delete" ) =>
                IF threads'[t].id \in DOMAIN _TASKS
                THEN threads'[t].pc = "delete_del"
                ELSE threads'[t].pc = "done" /\ threads'[t].resp = NotFound ]_vars

\* two deletes of the same id interleaved: one returned 204, the other
\* ended in the unhandled error
C13_Witness ==
    \E t, u \in Threads :
        /\ Finished(t, "delete") /\ threads[t].resp = NoContent
        /\ Finished(u, "delete") /\ threads[u].resp = InternalError
        /\ threads[t].id = threads[u].id

\* two patches of the same id, one of the description only and one of the
\* status only, each changing its field, both answered 200 after reading
\* the same existing task
LostUpdateRace(t, u) ==
    /\ t # u
    /\ Finished(t, "patch") /\ threads[t].resp.status = 200
    /\ Finished(u, "patch") /\ threads[u].resp.status = 200
    /\ threads[t].id = threads[u].id
    /\ DOMAIN threads[t].body = { "description" }
    /\ DOMAIN threads[u].body = { "status" }
    /\ threads[t].existing = threads[u].existing
    /\ threads[t].body["description"] # threads[t].existing.description
    /\ threads[u].body["status"] # threads[u].existing.status

\* C14: when two patches of the same id with disjoint fields both read the
\* existing task before either writes, the stored task is the one written
\* by one of them and lacks the other's field, although both returned 200.
C14_LostUpdate ==
    \A t, u \in Threads :
        LostUpdateRace(t, u) =>
            LET stored == _TASKS[threads[t].id]
                old    == threads[t].existing
            IN
            /\ stored \in { threads[t].resp.task, threads[u].resp.task }
            /\ \/ stored.description = old.description
               \/ stored.status = old.status

\* both patches returned 200 and the status patch was lost
C14_Witness ==
    \E t, u \in Threads :
        /\ LostUpdateRace(t, u)
        /\ _TASKS[threads[t].id].status = threads[t].existing.status
        /\ _TASKS[threads[t].id].description = threads[t].body["description"]

\* C15 as claimed: every store entry's key equals the id of its task and is
\* at least 1, in every state of the interleaved handlers.
C15_KeyEqualsId ==
    \A k \in DOMAIN _TASKS : k >= 1 /\ _TASKS[k].id = k

\* C15 as amended: keys and stored ids are at least 1 in every state, and
\* every key equals the id of its task in every state reached without two
\* create handlers in flight together.
C15_KeyEqualsIdWithoutOverlap ==
    /\ \A k \in DOMAIN _TASKS : k >= 1 /\ _TASKS[k].id >= 1
    /\ ~create_overlap => \A k \in DOMAIN _TASKS : _TASKS[k].id = k

\* two creates that did not overlap and a patch: two entries, keys = ids
C15_Witness ==
    /\ ~create_overlap
    /\ DOMAIN _TASKS = { 1, 2 }
    /\ \E t \in Threads : Finished(t, "patch") /\ threads[t].resp.status = 200

====
